---------------------------- MODULE Spec2Model ----------------------------
(***************************************************************************)
(* A model of the sales analytics pipeline: the parser and the validator   *)
(* of utils/file_handler.py, the catalog matcher of utils/api_handler.py,  *)
(* the aggregates and the report of utils/data_processor.py and            *)
(* utils/report_generator.py, and the ten stages of main.py.               *)
(*                                                                         *)
(* Representation.  A Python str is a sequence of one-character strings    *)
(* (<<"T", "1">> is "T1"), so that split, strip, replace, lower,           *)
(* startswith and the substring test are computed and not assumed.  None   *)
(* is the one-element sequence NoneStr, which is no character sequence.    *)
(* A Python int is an integer.  A Python float is a record: FNum(m) is     *)
(* the number m/1000 (amounts are kept in thousandths) and FNaN is the     *)
(* IEEE not-a-number, which float("nan") produces and for which every      *)
(* comparison is false.  The decimal inputs of the model have at most      *)
(* three fractional digits and their sums never fall on a rounding tie,    *)
(* so the arithmetic on thousandths is the arithmetic of the program.      *)
(***************************************************************************)
EXTENDS Integers, Sequences, FiniteSets, TLC

(***************************************************************************)
(* Bounds of the model.                                                    *)
(***************************************************************************)
MaxLines == 2

MaxTx == 3

MaxCat == 2

(***************************************************************************)
(* Python values.                                                          *)
(***************************************************************************)
NoneStr == <<"<None>">>

FNum(m) == [kind |-> "num", m |-> m]

FNaN == [kind |-> "nan"]

FNone == [kind |-> "none"]

IsNaN(x) == x.kind = "nan"

\* int * float
FMulInt(q, x) == IF IsNaN(x) THEN FNaN ELSE FNum(q * x.m)

\* x <= y, x >= y, x > y on floats: false as soon as one side is NaN
FLe(x, y) == ~IsNaN(x) /\ ~IsNaN(y) /\ x.m <= y.m

FGe(x, y) == ~IsNaN(x) /\ ~IsNaN(y) /\ x.m >= y.m

FGt(x, y) == ~IsNaN(x) /\ ~IsNaN(y) /\ x.m > y.m

(***************************************************************************)
(* str methods.                                                            *)
(***************************************************************************)
Digits == <<"0", "1", "2", "3", "4", "5", "6", "7", "8", "9">>

UpperCase == <<"A", "B", "C", "D", "E", "F", "G", "H", "I", "J", "K", "L", "M",
               "N", "O", "P", "Q", "R", "S", "T", "U", "V", "W", "X", "Y", "Z">>

LowerCase == <<"a", "b", "c", "d", "e", "f", "g", "h", "i", "j", "k", "l", "m",
               "n", "o", "p", "q", "r", "s", "t", "u", "v", "w", "x", "y", "z">>

IsDigit(c) == \E i \in 1..10 : Digits[i] = c

DigitVal(c) == (CHOOSE i \in 1..10 : Digits[i] = c) - 1

IsSpace(c) == c = " "

LowerChar(c) ==
  IF \E i \in 1..26 : UpperCase[i] = c
  THEN LowerCase[CHOOSE i \in 1..26 : UpperCase[i] = c]
  ELSE c

\* s.lower()
Lower(s) == [i \in 1..Len(s) |-> LowerChar(s[i])]

RECURSIVE LStrip(_)
LStrip(s) == IF s # <<>> /\ IsSpace(Head(s)) THEN LStrip(Tail(s)) ELSE s

RECURSIVE RStrip(_)
RStrip(s) ==
  IF s # <<>> /\ IsSpace(s[Len(s)]) THEN RStrip(SubSeq(s, 1, Len(s) - 1)) ELSE s

\* s.strip()
Strip(s) == RStrip(LStrip(s))

\* s.replace(c, "")
RemoveChar(s, c) == SelectSeq(s, LAMBDA x : x # c)

\* s.split(sep), sep one character: always at least one field
RECURSIVE SplitFrom(_, _, _, _)
SplitFrom(s, sep, done, cur) ==
  IF s = <<>> THEN Append(done, cur)
  ELSE IF Head(s) = sep THEN SplitFrom(Tail(s), sep, Append(done, cur), <<>>)
  ELSE SplitFrom(Tail(s), sep, done, Append(cur, Head(s)))

Split(s, sep) == SplitFrom(s, sep, <<>>, <<>>)

\* sep.join(parts)
RECURSIVE Join(_, _)
Join(parts, sep) ==
  IF parts = <<>> THEN <<>>
  ELSE IF Len(parts) = 1 THEN parts[1]
  ELSE parts[1] \o sep \o Join(Tail(parts), sep)

\* s.startswith(c), c one character
StartsWith(s, c) == Len(s) >= 1 /\ s[1] = c

\* a in b (substring test); the empty string is in every string
Contains(b, a) ==
  \E i \in 0..(Len(b) - Len(a)) : SubSeq(b, i + 1, i + Len(a)) = a

\* bool(s) of a str or None
Truthy(s) == s # NoneStr /\ s # <<>>

(***************************************************************************)
(* int(s) and float(s).  Both strip white space and take an optional sign. *)
(* int wants one or more digits.  float wants digits with an optional      *)
(* fraction, or "nan"; the fraction is kept to thousandths.                *)
(***************************************************************************)
Fail == [ok |-> FALSE]

Ok(v) == [ok |-> TRUE, v |-> v]

IsSign(c) == c = "-" \/ c = "+"

AllDigits(s) == \A i \in 1..Len(s) : IsDigit(s[i])

RECURSIVE DigitsValue(_, _)
DigitsValue(s, acc) ==
  IF s = <<>> THEN acc ELSE DigitsValue(Tail(s), 10 * acc + DigitVal(Head(s)))

Unsigned(s) == IF s # <<>> /\ IsSign(Head(s)) THEN Tail(s) ELSE s

SignOf(s) == IF s # <<>> /\ Head(s) = "-" THEN -1 ELSE 1

ParseInt(s) ==
  LET t == Strip(s)
      u == Unsigned(t)
  IN IF u # <<>> /\ AllDigits(u) THEN Ok(SignOf(t) * DigitsValue(u, 0)) ELSE Fail

\* the first three fractional digits as thousandths
Thousandths(f) ==
  DigitsValue(SubSeq(f \o <<"0", "0", "0">>, 1, 3), 0)

ParseFloat(s) ==
  LET t == Strip(s)
      u == Unsigned(t)
      p == Split(u, ".")
  IN IF Lower(u) = <<"n", "a", "n">> THEN Ok(FNaN)
     ELSE IF Len(p) = 1 /\ p[1] # <<>> /\ AllDigits(p[1])
       THEN Ok(FNum(SignOf(t) * 1000 * DigitsValue(p[1], 0)))
     ELSE IF Len(p) = 2 /\ AllDigits(p[1]) /\ AllDigits(p[2]) /\ p[1] \o p[2] # <<>>
       THEN Ok(FNum(SignOf(t) * (1000 * DigitsValue(p[1], 0) + Thousandths(p[2]))))
     ELSE Fail

(***************************************************************************)
(* utils/file_handler.py: the parser.                                      *)
(***************************************************************************)
\* normalize_product_name
normalize_product_name(product_name) ==
  IF product_name = <<>> THEN NoneStr
  ELSE LET split == Split(product_name, ",")
           parts == SelectSeq([i \in 1..Len(split) |-> Strip(split[i])],
                              LAMBDA p : p # <<>>)
       IN Join(parts, <<" ">>)

\* a count test that lets lines of more than 8 fields through
FieldCountAtLeast(fields) == Len(fields) >= 8

\* the test that lets a line through to the unpacking of its fields
FieldCountOk(fields) == Len(fields) = 8

\* the dict literal of parse_transactions: Ok(record), or Fail when int() or
\* float() raises ValueError
MakeRecord(fields) ==
  LET q == ParseInt(RemoveChar(fields[5], ","))
      u == ParseFloat(RemoveChar(fields[6], ","))
  IN IF q.ok /\ u.ok
     THEN Ok([TransactionID |-> Strip(fields[1]),
              Date |-> Strip(fields[2]),
              ProductID |-> Strip(fields[3]),
              ProductName |-> normalize_product_name(fields[4]),
              Quantity |-> q.v,
              UnitPrice |-> u.v,
              CustomerID |-> Strip(fields[7]),
              Region |-> Strip(fields[8])])
     ELSE Fail

\* one turn of the loop of parse_transactions: the list after the line, and
\* the exception that escapes, if any (the unpacking of a field list that is
\* not of length 8 is outside the try)
ParseStep(acc, line) ==
  LET fields == Split(line, "|")
  IN IF ~FieldCountOk(fields) THEN [txs |-> acc.txs, exc |-> acc.exc]
     ELSE IF Len(fields) # 8 THEN [txs |-> acc.txs, exc |-> "ValueError"]
     ELSE LET r == MakeRecord(fields)
          IN IF r.ok THEN [txs |-> Append(acc.txs, r.v), exc |-> acc.exc]
             ELSE [txs |-> acc.txs, exc |-> acc.exc]

RECURSIVE ParseLoop(_, _)
ParseLoop(acc, lines) ==
  IF lines = <<>> \/ acc.exc # "none" THEN acc
  ELSE ParseLoop(ParseStep(acc, Head(lines)), Tail(lines))

\* parse_transactions(raw_lines)
parse_transactions(raw_lines) == ParseLoop([txs |-> <<>>, exc |-> "none"], raw_lines)


(***************************************************************************)
(* utils/file_handler.py: validate_and_filter.                             *)
(***************************************************************************)
\* all([tx.get("TransactionID"), tx.get("ProductID"), tx.get("CustomerID"),
\*      tx.get("Region")])
RequiredFieldsOk(tx) ==
  /\ Truthy(tx.TransactionID)
  /\ Truthy(tx.ProductID)
  /\ Truthy(tx.CustomerID)
  /\ Truthy(tx.Region)

IdRulesOk(tx) ==
  /\ StartsWith(tx.TransactionID, "T")
  /\ StartsWith(tx.ProductID, "P")
  /\ StartsWith(tx.CustomerID, "C")

\* the value rule rejects on: Quantity <= 0 or UnitPrice <= 0
ValueRulesReject(tx) == tx.Quantity <= 0 \/ FLe(tx.UnitPrice, FNum(0))

\* the three tests a record passes to reach valid_transactions
Admitted(tx) == RequiredFieldsOk(tx) /\ IdRulesOk(tx) /\ ~ValueRulesReject(tx)

\* tx["Quantity"] * tx["UnitPrice"]
Amount(tx) == FMulInt(tx.Quantity, tx.UnitPrice)

\* a validation loop that drops a record of no quantity without counting it
RECURSIVE ValidateLoopUncounted(_, _)
ValidateLoopUncounted(acc, txs) ==
  IF txs = <<>> THEN acc
  ELSE IF Admitted(Head(txs))
    THEN ValidateLoopUncounted([valid |-> Append(acc.valid, Head(txs)),
                                invalid_count |-> acc.invalid_count], Tail(txs))
    ELSE ValidateLoopUncounted(
           [valid |-> acc.valid,
            invalid_count |-> IF Head(txs).Quantity = 0 THEN acc.invalid_count
                              ELSE acc.invalid_count + 1], Tail(txs))

\* the validation loop: valid_transactions and invalid_count
RECURSIVE ValidateLoop(_, _)
ValidateLoop(acc, txs) ==
  IF txs = <<>> THEN acc
  ELSE IF Admitted(Head(txs))
    THEN ValidateLoop([valid |-> Append(acc.valid, Head(txs)),
                       invalid_count |-> acc.invalid_count], Tail(txs))
    ELSE ValidateLoop([valid |-> acc.valid,
                       invalid_count |-> acc.invalid_count + 1], Tail(txs))

\* "if region:" is false for None and for the empty string
RegionGiven(region) == Truthy(region)

\* a region stage that removes from the list it is iterating over, so that
\* the record after a removed one is skipped
RECURSIVE RemoveWhileIterating(_, _, _)
RemoveWhileIterating(list, i, region) ==
  IF i > Len(list) THEN list
  ELSE IF list[i].Region # region
    THEN RemoveWhileIterating(SubSeq(list, 1, i - 1) \o SubSeq(list, i + 1, Len(list)),
                              i + 1, region)
    ELSE RemoveWhileIterating(list, i + 1, region)

RegionStageInPlace(filtered, region) ==
  IF RegionGiven(region) THEN RemoveWhileIterating(filtered, 1, region) ELSE filtered

RegionStage(filtered, region) ==
  IF RegionGiven(region)
  THEN SelectSeq(filtered, LAMBDA tx : tx.Region = region)
  ELSE filtered

MinKeeps(tx, min_amount) == FGe(Amount(tx), min_amount)

MinStage(filtered, min_amount) ==
  IF min_amount # FNone
  THEN SelectSeq(filtered, LAMBDA tx : MinKeeps(tx, min_amount))
  ELSE filtered

\* an exclusive upper bound
MaxKeepsStrict(tx, max_amount) == ~FGe(Amount(tx), max_amount) /\ ~IsNaN(Amount(tx))

MaxKeeps(tx, max_amount) == FLe(Amount(tx), max_amount)

MaxStage(filtered, max_amount) ==
  IF max_amount # FNone
  THEN SelectSeq(filtered, LAMBDA tx : MaxKeeps(tx, max_amount))
  ELSE filtered

\* validate_and_filter(transactions, region, min_amount, max_amount):
\* (filtered, invalid_count, summary)
validate_and_filter(txs, region, min_amount, max_amount) ==
  LET v  == ValidateLoop([valid |-> <<>>, invalid_count |-> 0], txs)
      f1 == RegionStage(v.valid, region)
      filtered_by_region == Len(v.valid) - Len(f1)
      f2 == MinStage(f1, min_amount)
      f3 == MaxStage(f2, max_amount)
      filtered_by_amount == (Len(f1) - Len(f2)) + (Len(f2) - Len(f3))
  IN [filtered |-> f3,
      invalid_count |-> v.invalid_count,
      summary |-> [total_input |-> Len(txs),
                   invalid |-> v.invalid_count,
                   filtered_by_region |-> filtered_by_region,
                   filtered_by_amount |-> filtered_by_amount,
                   final_count |-> Len(f3)]]

(***************************************************************************)
(* The state: the arguments and the results of the calls.                  *)
(***************************************************************************)
VARIABLES
  pc,             \* where the run is
  raised,         \* the exception that escaped the last call, or "none"
  raw_lines,      \* the argument of parse_transactions
  transactions,   \* a list of transaction records
  region,         \* the filters of validate_and_filter
  min_amount,
  max_amount,
  returned,       \* what the last call of validate_and_filter returned
  previous,       \* what the call before it returned
  api_products,   \* the catalog fetch_all_products returned
  product_mapping,        \* what create_product_mapping returned
  enriched_transactions,  \* what enrich_sales_data returned
  enrichment,     \* what api_enrichment_summary returned
  region_sales,   \* what region_wise_sales returned
  report,         \* what generate_sales_report wrote
  top_n,          \* the n of top_selling_products and top_products
  top,            \* what top_selling_products or top_products returned
  entry,          \* how main is entered: "script" (python main.py) or "main"
  file,           \* data/sales_data.txt: whether it exists, and its lines
  answers,        \* what the user answers to the prompts of main
  fetch,          \* what the request of fetch_all_products meets
  stages,         \* the stages of main begun so far, in order
  printed,        \* what main and its callees have reported, in order
  saved           \* the records written to data/enriched_sales_data.txt

NoReturn == [filtered |-> <<>>, invalid_count |-> 0,
             summary |-> [total_input |-> 0, invalid |-> 0, filtered_by_region |-> 0,
                          filtered_by_amount |-> 0, final_count |-> 0]]

NoMapping == [by_title |-> <<>>, by_id |-> <<>>]

NoEnrichment == [total |-> 0, matched |-> 0, failed |-> 0,
                 success_rate |-> [num |-> 0, den |-> 1], failed_products |-> {}]

vars == <<pc, raised, raw_lines, transactions, region, min_amount, max_amount,
          returned, previous, api_products, product_mapping,
          enriched_transactions, enrichment, region_sales, report, top_n, top,
          entry, file, answers, fetch, stages, printed, saved>>

\* the variables of the validator, and those of the catalog matcher
vfVars == <<region, min_amount, max_amount, returned, previous>>

apiVars == <<api_products, product_mapping, enriched_transactions, enrichment>>

repVars == <<region_sales, report, top_n, top>>

\* the variables of a run of main
mainVars == <<entry, file, answers, fetch, stages, printed, saved>>

NoFile == [exists |-> FALSE, lines |-> <<>>]

NoAnswers == [apply_filter |-> <<"n">>, region |-> <<>>, min_amt |-> <<>>, max_amt |-> <<>>]

NoFetch == [outcome |-> "ok", products |-> <<>>]

NoMainRun ==
  /\ entry = "none"
  /\ file = NoFile
  /\ answers = NoAnswers
  /\ fetch = NoFetch
  /\ stages = <<>>
  /\ printed = <<>>
  /\ saved = <<>>

NoReport == [written |-> "nothing"]

NoReportCall == region_sales = <<>> /\ report = NoReport /\ top_n = 5 /\ top = <<>>

NoFilterCall ==
  /\ region = NoneStr
  /\ min_amount = FNone
  /\ max_amount = FNone
  /\ returned = NoReturn
  /\ previous = NoReturn

NoCatalogCall ==
  /\ api_products = <<>>
  /\ product_mapping = NoMapping
  /\ enriched_transactions = <<>>
  /\ enrichment = NoEnrichment

\* all sequences over S of length at most n
SeqsUpTo(S, n) == UNION {[1..k -> S] : k \in 0..n}

(***************************************************************************)
(* The parser on raw lines.                                                *)
(***************************************************************************)
Bar == <<"|">>

\* T1|d1|P1|M,W|2|4.5|C1|N
GoodFields == << <<"T", "1">>, <<"d", "1">>, <<"P", "1">>, <<"M", ",", "W">>,
                 <<"2">>, <<"4", ".", "5">>, <<"C", "1">>, <<"N">> >>

WithField(k, v) == [GoodFields EXCEPT ![k] = v]

FieldLists ==
  { GoodFields,
    SubSeq(GoodFields, 1, 7),                         \* 7 fields
    Append(GoodFields, <<"x">>),                      \* 9 fields
    WithField(5, <<"x">>),                            \* Quantity not a number
    WithField(5, <<>>),                               \* Quantity empty
    WithField(5, <<"2", ".", "5">>),                  \* Quantity not an integer
    WithField(5, <<" ", "1", ",", "0", "0", "0", " ">>), \* Quantity " 1,000 "
    WithField(5, <<"-", "1">>),                       \* Quantity -1
    WithField(6, <<"x">>),                            \* UnitPrice not a number
    WithField(6, <<"n", "a", "n">>),                  \* UnitPrice nan
    WithField(6, <<"1", ",", "2", "0", "0">>),        \* UnitPrice 1,200
    WithField(4, <<>>),                               \* ProductName empty
    [GoodFields EXCEPT ![1] = <<" ", "X", "1">>, ![8] = <<"S", " ">>] }

LineSet == {Join(f, Bar) : f \in FieldLists}

InitParse ==
  /\ pc = "start"
  /\ raised = "none"
  /\ raw_lines \in SeqsUpTo(LineSet, MaxLines)
  /\ transactions = <<>>
  /\ NoFilterCall
  /\ NoCatalogCall
  /\ NoReportCall
  /\ NoMainRun

ParseTransactions ==
  /\ pc = "start"
  /\ LET r == parse_transactions(raw_lines)
     IN /\ raised' = r.exc
        /\ transactions' = IF r.exc = "none" THEN r.txs ELSE transactions
        /\ pc' = IF r.exc = "none" THEN "parsed" ELSE "raised"
  /\ UNCHANGED <<mainVars, raw_lines, vfVars, apiVars, repVars>>

NextParse == ParseTransactions

SpecParse == InitParse /\ [][NextParse]_vars


(***************************************************************************)
(* validate_and_filter on parsed records, and again on what it returned.   *)
(***************************************************************************)
Tx(tid, pid, cid, rgn, qty, price) ==
  [TransactionID |-> tid, Date |-> <<"d", "1">>, ProductID |-> pid,
   ProductName |-> <<"M", " ", "W">>, Quantity |-> qty, UnitPrice |-> price,
   CustomerID |-> cid, Region |-> rgn]

\* records the lists of the model are built from: amounts 1.0, 2.5 and 5.0 in
\* two regions, a NaN price, and three records that break one rule each
CoreTx ==
  { Tx(<<"T", "1">>, <<"P", "1">>, <<"C", "1">>, <<"N">>, 1, FNum(1000)),
    Tx(<<"T", "2">>, <<"P", "1">>, <<"C", "1">>, <<"N">>, 2, FNum(2500)),
    Tx(<<"T", "3">>, <<"P", "2">>, <<"C", "2">>, <<"N">>, 1, FNum(2500)),
    Tx(<<"T", "7">>, <<"P", "2">>, <<"C", "2">>, <<"S">>, 1, FNum(2500)),
    Tx(<<"T", "4">>, <<"P", "2">>, <<"C", "2">>, <<"N">>, 1, FNaN),
    Tx(<<"X", "5">>, <<"P", "1">>, <<"C", "1">>, <<"N">>, 1, FNum(2500)),
    Tx(<<"T", "6">>, <<"P", "1">>, <<"C", "1">>, <<"S">>, 0, FNum(2500)) }

\* every combination of field values, for the lists of one record
FullTx ==
  { Tx(tid, pid, cid, rgn, qty, price) :
      tid \in {<<"T", "1">>, <<"X", "1">>, <<>>},
      pid \in {<<"P", "1">>, <<"X", "1">>, <<>>},
      cid \in {<<"C", "1">>, <<"X", "1">>, <<>>},
      rgn \in {<<"N">>, <<>>},
      qty \in {-1, 0, 2},
      price \in {FNaN, FNum(0), FNum(-1000), FNum(2500)} }

RegionChoices == {NoneStr, <<>>, <<"N">>, <<"S">>}

MinChoices == {FNone, FNum(2500), FNum(5000)}

MaxChoices == {FNone, FNum(1000), FNum(2500)}

InitValidate ==
  /\ pc = "parsed"
  /\ raised = "none"
  /\ raw_lines = <<>>
  /\ transactions \in SeqsUpTo(CoreTx, MaxTx) \cup {<<t>> : t \in FullTx}
  /\ NoFilterCall
  /\ NoCatalogCall
  /\ NoReportCall
  /\ NoMainRun

\* valid_txns, invalid_count, summary = validate_and_filter(parsed, r, lo, hi)
ValidateAndFilter ==
  /\ pc = "parsed"
  /\ \E r \in RegionChoices, lo \in MinChoices, hi \in MaxChoices :
       /\ region' = r
       /\ min_amount' = lo
       /\ max_amount' = hi
       /\ returned' = validate_and_filter(transactions, r, lo, hi)
  /\ pc' = "validated"
  /\ UNCHANGED <<mainVars, raised, raw_lines, transactions, previous, apiVars, repVars>>

\* the same filters applied to the list the first call returned
ValidateAgain ==
  /\ pc = "validated"
  /\ previous' = returned
  /\ transactions' = returned.filtered
  /\ returned' = validate_and_filter(returned.filtered, region, min_amount, max_amount)
  /\ pc' = "revalidated"
  /\ UNCHANGED <<mainVars, raised, raw_lines, region, min_amount, max_amount, apiVars, repVars>>

NextValidate == ValidateAndFilter \/ ValidateAgain

SpecValidate == InitValidate /\ [][NextValidate]_vars


(***************************************************************************)
(* What the specification says of the parser and of the validator.         *)
(***************************************************************************)
\* the validity rule as the specification states it
NonEmpty(f) == f # NoneStr /\ Len(f) > 0

ValidByRules(tx) ==
  /\ NonEmpty(tx.TransactionID) /\ NonEmpty(tx.ProductID)
  /\ NonEmpty(tx.CustomerID) /\ NonEmpty(tx.Region)
  /\ tx.TransactionID[1] = "T" /\ tx.ProductID[1] = "P" /\ tx.CustomerID[1] = "C"
  /\ tx.Quantity > 0
  /\ tx.UnitPrice.kind = "num" /\ tx.UnitPrice.m > 0

NoFilters == region = NoneStr /\ min_amount = FNone /\ max_amount = FNone

\* C1: with no filters validate_and_filter returns exactly the input records,
\* in input order, whose four required fields are non-empty, whose ids start
\* with T, P and C, and whose Quantity and UnitPrice are > 0; every other
\* record is counted once in invalid_count.
C1_ValidExactly ==
  (pc = "validated" /\ NoFilters) =>
    /\ returned.filtered = SelectSeq(transactions, ValidByRules)
    /\ returned.invalid_count = Len(transactions) - Len(returned.filtered)

\* the filters as the specification states them, for a valid record
RegionWanted(tx) == (region # NoneStr /\ region # <<>>) => tx.Region = region

AmountWanted(tx) ==
  /\ min_amount # FNone => tx.Quantity * tx.UnitPrice.m >= min_amount.m
  /\ max_amount # FNone => tx.Quantity * tx.UnitPrice.m <= max_amount.m

Wanted(tx) == RegionWanted(tx) /\ AmountWanted(tx)

AllValid == \A i \in 1..Len(transactions) : ValidByRules(transactions[i])

\* C5: on a list of valid records validate_and_filter returns, in input
\* order, exactly the records whose Region equals the region filter and whose
\* amount lies within the inclusive bounds (each when given);
\* filtered_by_region counts the records the region stage removed and
\* filtered_by_amount the region-surviving records the two amount stages
\* removed.
C5_FiltersInOrder ==
  (pc = "validated" /\ AllValid) =>
    /\ returned.filtered = SelectSeq(transactions, Wanted)
    /\ returned.summary.filtered_by_region =
         Cardinality({i \in 1..Len(transactions) : ~RegionWanted(transactions[i])})
    /\ returned.summary.filtered_by_amount =
         Cardinality({i \in 1..Len(transactions) :
                        RegionWanted(transactions[i]) /\ ~AmountWanted(transactions[i])})

\* a list of valid records of which the region stage removes one, the amount
\* stages another (whose amount is above the inclusive maximum), and a record
\* whose amount equals both bounds is returned
C5_Witness ==
  /\ pc = "validated" /\ AllValid
  /\ region = <<"N">> /\ min_amount = FNum(2500) /\ max_amount = FNum(2500)
  /\ returned.summary.filtered_by_region = 1
  /\ returned.summary.filtered_by_amount = 1
  /\ Len(returned.filtered) = 1
  /\ Amount(returned.filtered[1]) = FNum(2500)

\* C6: applying validate_and_filter with the same filters to its own output
\* returns the same list, with nothing invalid and nothing removed.
C6_Idempotent ==
  pc = "revalidated" =>
    /\ returned.filtered = previous.filtered
    /\ returned.invalid_count = 0
    /\ returned.summary.invalid = 0
    /\ returned.summary.filtered_by_region = 0
    /\ returned.summary.filtered_by_amount = 0
    /\ returned.summary.total_input = previous.summary.final_count
    /\ returned.summary.final_count = previous.summary.final_count

\* a second pass over a non-empty result of a first pass that rejected a
\* record as invalid and removed records by region and by amount
C6_Witness ==
  /\ pc = "revalidated"
  /\ previous.summary.invalid > 0
  /\ previous.summary.filtered_by_region + previous.summary.filtered_by_amount > 0
  /\ region # NoneStr /\ min_amount # FNone
  /\ Len(returned.filtered) > 0

\* the lines the specification keeps: 8 fields (7 separators), Quantity an
\* integer and UnitPrice a number once the commas are removed
CountBars(line) == Len(SelectSeq(line, LAMBDA c : c = "|"))

LineKept(line) ==
  /\ CountBars(line) = 7
  /\ ParseInt(RemoveChar(Split(line, "|")[5], ",")).ok
  /\ ParseFloat(RemoveChar(Split(line, "|")[6], ",")).ok

RecordOf(line) ==
  LET f == Split(line, "|")
  IN [TransactionID |-> Strip(f[1]), Date |-> Strip(f[2]), ProductID |-> Strip(f[3]),
      ProductName |-> normalize_product_name(f[4]),
      Quantity |-> ParseInt(RemoveChar(f[5], ",")).v,
      UnitPrice |-> ParseFloat(RemoveChar(f[6], ",")).v,
      CustomerID |-> Strip(f[7]), Region |-> Strip(f[8])]

KeptLines == SelectSeq(raw_lines, LineKept)

\* C7: parse_transactions never raises and returns, in input order, one
\* record for exactly the lines of 8 fields whose Quantity and UnitPrice
\* parse; the other lines yield nothing and leave the other records alone.
C7_ParserSkips ==
  pc # "start" =>
    /\ raised = "none"
    /\ Len(transactions) = Len(KeptLines)
    /\ \A k \in 1..Len(KeptLines) : transactions[k] = RecordOf(KeptLines[k])

\* a line of 9 fields or with a Quantity that is no number was dropped in
\* front of a line that was kept
C7_Witness ==
  /\ pc = "parsed"
  /\ Len(raw_lines) = 2
  /\ CountBars(raw_lines[1]) = 8 \/ ~ParseInt(Split(raw_lines[1], "|")[5]).ok
  /\ Len(transactions) = 1
  /\ transactions[1] = RecordOf(raw_lines[2])


(***************************************************************************)
(* utils/api_handler.py: the catalog matcher.  A dict is the sequence of   *)
(* its items in insertion order: assigning to a key that is present keeps  *)
(* the key's place and replaces its value.                                 *)
(***************************************************************************)
DictHas(d, k) == \E i \in 1..Len(d) : d[i].key = k

\* d[k] = v
DictSet(d, k, v) ==
  IF DictHas(d, k)
  THEN [i \in 1..Len(d) |-> IF d[i].key = k THEN [key |-> k, val |-> v] ELSE d[i]]
  ELSE Append(d, [key |-> k, val |-> v])

\* d.get(k): Ok(value), or Fail for None
DictGet(d, k) ==
  IF DictHas(d, k) THEN Ok(d[CHOOSE i \in 1..Len(d) : d[i].key = k].val) ELSE Fail

\* p["title"].lower().replace(" ", ""), and the same of a ProductName
NormalizeName(s) == RemoveChar(Lower(s), " ")

RECURSIVE MappingLoop(_, _)
MappingLoop(m, products) ==
  IF products = <<>> THEN m
  ELSE LET p == Head(products)
       IN MappingLoop([by_title |-> DictSet(m.by_title, NormalizeName(p.title), p),
                       by_id |-> DictSet(m.by_id, p.id, p)],
                      Tail(products))

\* create_product_mapping(api_products)
create_product_mapping(products) == MappingLoop([by_title |-> <<>>, by_id |-> <<>>], products)

\* int("".join(filter(str.isdigit, tx["ProductID"]))): Fail on ValueError
NumericId(product_id) ==
  LET digits == SelectSeq(product_id, IsDigit)
  IN IF digits = <<>> THEN Fail ELSE Ok(DigitsValue(digits, 0))

\* attempt 1: the product with the numeric id, if any
IdLookup(tx, mapping) ==
  LET n == NumericId(tx.ProductID)
  IN IF n.ok THEN DictGet(mapping.by_id, n.v) ELSE Fail

\* csv_name in key or key in csv_name
NameMatches(csv_name, key) == Contains(key, csv_name) \/ Contains(csv_name, key)

\* the loop over product_mapping["by_title"].items(), with its break
RECURSIVE FirstTitleMatch(_, _)
FirstTitleMatch(csv_name, items) ==
  IF items = <<>> THEN Fail
  ELSE IF NameMatches(csv_name, Head(items).key) THEN Ok(Head(items).val)
  ELSE FirstTitleMatch(csv_name, Tail(items))

\* attempt 2; tx["ProductName"].lower() raises AttributeError on None
NameLookup(tx, mapping) ==
  IF tx.ProductName = NoneStr THEN [ok |-> FALSE, exc |-> "AttributeError"]
  ELSE LET hit == FirstTitleMatch(NormalizeName(tx.ProductName), mapping.by_title)
       IN IF hit.ok THEN [ok |-> TRUE, v |-> hit.v, exc |-> "none"]
          ELSE [ok |-> FALSE, exc |-> "none"]

\* the name lookup tried first and the id lookup second
FindProductNameFirst(tx, mapping) ==
  LET byname == NameLookup(tx, mapping)
      byid   == IdLookup(tx, mapping)
  IN IF byname.exc # "none" THEN byname
     ELSE IF byname.ok THEN byname
     ELSE IF byid.ok THEN [ok |-> TRUE, v |-> byid.v, exc |-> "none"]
     ELSE [ok |-> FALSE, exc |-> "none"]

\* the two attempts in their order: the product found, none, or the exception
FindProduct(tx, mapping) ==
  LET byid == IdLookup(tx, mapping)
  IN IF byid.ok THEN [ok |-> TRUE, v |-> byid.v, exc |-> "none"]
     ELSE NameLookup(tx, mapping)

\* the placeholder of a transaction without a product (ratings are kept in
\* tenths: 40 is 4.0)
GenericProduct == [category |-> "miscellaneous", brand |-> "Generic", rating |-> 40]

\* the three fields with category and brand exchanged
ApiFieldsSwapped(product) ==
  [API_Category |-> product.brand, API_Brand |-> product.category,
   API_Rating |-> product.rating]

\* the three fields copied from the product
ApiFields(product) ==
  [API_Category |-> product.category, API_Brand |-> product.brand,
   API_Rating |-> product.rating]

\* API_Match that tells whether a product was found
ApiMatchIfFound(found) == found

\* tx_enriched["API_Match"] = True, whether a product was found or not
ApiMatch(found) == TRUE

\* tx_enriched = tx: the writes land in the input record
SourceAliased(tx, tx_enriched) == tx_enriched

\* tx_enriched = tx.copy(): the input record after the writes to the copy
SourceAfter(tx, tx_enriched) == tx

\* one turn of the loop of enrich_sales_data
EnrichStep(acc, tx, mapping) ==
  LET found == FindProduct(tx, mapping)
      api_product == IF found.ok THEN found.v ELSE GenericProduct
      tx_enriched == tx @@ ApiFields(api_product) @@ [API_Match |-> ApiMatch(found.ok)]
  IN IF found.exc # "none"
     THEN [enriched |-> acc.enriched, source |-> Append(acc.source, tx), exc |-> found.exc]
     ELSE [enriched |-> Append(acc.enriched, tx_enriched),
           source |-> Append(acc.source, SourceAfter(tx, tx_enriched)),
           exc |-> "none"]

RECURSIVE EnrichLoop(_, _, _)
EnrichLoop(acc, txs, mapping) ==
  IF txs = <<>> THEN acc
  ELSE IF acc.exc # "none"
    THEN EnrichLoop([acc EXCEPT !.source = Append(@, Head(txs))], Tail(txs), mapping)
    ELSE EnrichLoop(EnrichStep(acc, Head(txs), mapping), Tail(txs), mapping)

\* enrich_sales_data(transactions, product_mapping): the list returned, the
\* input list as the call leaves it, and the exception that escapes, if any
enrich_sales_data(txs, mapping) ==
  EnrichLoop([enriched |-> <<>>, source |-> <<>>, exc |-> "none"], txs, mapping)

(***************************************************************************)
(* utils/report_generator.py: api_enrichment_summary.  A quotient is kept  *)
(* as its numerator and denominator; the sorted list of distinct names is  *)
(* kept as the set of its elements.                                        *)
(***************************************************************************)
Ratio(n, d) == [num |-> n, den |-> d]

api_enrichment_summary(enriched) ==
  LET total == Len(enriched)
      matched == SelectSeq(enriched, LAMBDA t : t.API_Match = TRUE)
      failed == SelectSeq(enriched, LAMBDA t : t.API_Match = FALSE)
  IN [total |-> total,
      matched |-> Len(matched),
      failed |-> Len(failed),
      success_rate |-> IF total # 0 THEN Ratio(Len(matched) * 100, total) ELSE Ratio(0, 1),
      failed_products |-> {failed[i].ProductName : i \in 1..Len(failed)}]

(***************************************************************************)
(* The catalog matcher on valid transactions and a fetched catalog.        *)
(***************************************************************************)
MaxEnrichTx == 2

ETx(pid, name) ==
  [TransactionID |-> <<"T", "1">>, Date |-> <<"d", "1">>, ProductID |-> pid,
   ProductName |-> name, Quantity |-> 1, UnitPrice |-> FNum(2500),
   CustomerID |-> <<"C", "1">>, Region |-> <<"N">>]

EnrichTx ==
  { ETx(<<"P", "1">>, <<"M", " ", "W">>),
    ETx(<<"P", "9">>, <<"M", " ", "W">>),
    ETx(<<"P">>, <<"M", "o">>),                 \* no digit in the ProductID
    ETx(<<"P", "0", "2">>, <<"K", "e", "y">>),
    ETx(<<"P", "9">>, NoneStr),                 \* the ProductName field was empty
    ETx(<<"P", "1">>, NoneStr),
    ETx(<<"P", "9">>, <<>>),                    \* the ProductName field was ","
    ETx(<<"P", "9">>, <<"Z", "e", "d">>) }

Product(id, title, category, brand, rating) ==
  [id |-> id, title |-> title, category |-> category, brand |-> brand, rating |-> rating]

\* two titles that normalize to "mw", two products of id 1, a title inside
\* "key" and a title around "mo"
ProductSet ==
  { Product(1, <<"M", " ", "w">>, "catA", "brandA", 41),
    Product(2, <<"m", "W">>, "catB", "brandB", 42),
    Product(1, <<"K", "e">>, "catC", "brandC", 43),
    Product(3, <<"M", "o", " ", "x">>, "catD", "brandD", 44) }

InitEnrich ==
  /\ pc = "fetched"
  /\ raised = "none"
  /\ raw_lines = <<>>
  /\ transactions \in SeqsUpTo(EnrichTx, MaxEnrichTx)
  /\ NoFilterCall
  /\ api_products \in SeqsUpTo(ProductSet, MaxCat)
  /\ product_mapping = NoMapping
  /\ enriched_transactions = <<>>
  /\ enrichment = NoEnrichment
  /\ NoReportCall
  /\ NoMainRun

CreateProductMapping ==
  /\ pc = "fetched"
  /\ product_mapping' = create_product_mapping(api_products)
  /\ pc' = "mapped"
  /\ UNCHANGED <<mainVars, raised, raw_lines, transactions, vfVars, api_products,
                 enriched_transactions, enrichment, repVars>>

EnrichSalesData ==
  /\ pc = "mapped"
  /\ LET r == enrich_sales_data(transactions, product_mapping)
     IN /\ raised' = r.exc
        /\ transactions' = r.source
        /\ enriched_transactions' = IF r.exc = "none" THEN r.enriched ELSE <<>>
        /\ pc' = IF r.exc = "none" THEN "enriched" ELSE "raised"
  /\ UNCHANGED <<mainVars, raw_lines, vfVars, api_products, product_mapping, enrichment, repVars>>

ApiEnrichmentSummary ==
  /\ pc = "enriched"
  /\ enrichment' = api_enrichment_summary(enriched_transactions)
  /\ pc' = "summarised"
  /\ UNCHANGED <<mainVars, raised, raw_lines, transactions, vfVars, api_products,
                 product_mapping, enriched_transactions, repVars>>

NextEnrich == CreateProductMapping \/ EnrichSalesData \/ ApiEnrichmentSummary

SpecEnrich == InitEnrich /\ [][NextEnrich]_vars


(***************************************************************************)
(* What the specification says of the catalog matcher, stated on the       *)
(* catalog itself and not on the mapping built from it.                    *)
(***************************************************************************)
TxKeys == {"TransactionID", "Date", "ProductID", "ProductName", "Quantity",
           "UnitPrice", "CustomerID", "Region"}

ApiKeys == {"API_Category", "API_Brand", "API_Rating", "API_Match"}

Returned == pc \in {"enriched", "summarised"}

CatalogIdx == 1..Len(api_products)

\* the digits of a ProductID, read as a number
HasDigits(tx) == \E k \in 1..Len(tx.ProductID) : IsDigit(tx.ProductID[k])

IdNumber(tx) == DigitsValue(SelectSeq(tx.ProductID, IsDigit), 0)

IdHits(tx) == {j \in CatalogIdx : HasDigits(tx) /\ api_products[j].id = IdNumber(tx)}

\* the catalog products whose normalized title contains, or is contained in,
\* the normalized ProductName
TitleHits(tx) ==
  {j \in CatalogIdx :
     /\ tx.ProductName # NoneStr
     /\ LET key == NormalizeName(api_products[j].title)
            name == NormalizeName(tx.ProductName)
        IN Contains(key, name) \/ Contains(name, key)}

Found(tx) == IdHits(tx) # {} \/ TitleHits(tx) # {}

Min(S) == CHOOSE x \in S : \A y \in S : x <= y

Max(S) == CHOOSE x \in S : \A y \in S : x >= y

\* the catalog products with the same normalized title as product j
SameTitle(j) ==
  {k \in CatalogIdx :
     NormalizeName(api_products[k].title) = NormalizeName(api_products[j].title)}

CopiedFrom(e, product) ==
  /\ e.API_Category = product.category
  /\ e.API_Brand = product.brand
  /\ e.API_Rating = product.rating

TxIdx == 1..Len(transactions)

\* C2 as stated: API_Match of each enriched transaction is true exactly when
\* a catalog product was found for it, by id or by name, so that the matched
\* and failed counts of api_enrichment_summary are the hits and the misses.
C2_MatchIffFound ==
  /\ Returned => \A i \in TxIdx :
       enriched_transactions[i].API_Match = Found(transactions[i])
  /\ pc = "summarised" =>
       /\ enrichment.matched = Cardinality({i \in TxIdx : Found(transactions[i])})
       /\ enrichment.failed = Cardinality({i \in TxIdx : ~Found(transactions[i])})

\* C2 as amended: API_Match of every enriched transaction is true, found or
\* not; a transaction without a catalog product carries the placeholder
\* miscellaneous / Generic / 4.0, and api_enrichment_summary reports every
\* transaction as matched and none as failed.
C2_AlwaysMatched ==
  /\ Returned => \A i \in TxIdx :
       /\ enriched_transactions[i].API_Match = TRUE
       /\ ~Found(transactions[i]) =>
            /\ enriched_transactions[i].API_Category = "miscellaneous"
            /\ enriched_transactions[i].API_Brand = "Generic"
            /\ enriched_transactions[i].API_Rating = 40
  /\ pc = "summarised" =>
       /\ enrichment.total = Len(transactions)
       /\ enrichment.matched = Len(transactions)
       /\ enrichment.failed = 0
       /\ enrichment.failed_products = {}

\* a summary of two enriched transactions, one with a catalog product and one
\* without
C2_Witness ==
  /\ pc = "summarised"
  /\ Len(transactions) = 2
  /\ Found(transactions[1])
  /\ ~Found(transactions[2])
  /\ enrichment.matched = 2

\* C3: a transaction whose ProductID digits are the id of a catalog product
\* gets API_Match true and that product's category, brand and rating,
\* unchanged (of several products with the id, the last of the catalog).
C3_IdMatchCopies ==
  Returned => \A i \in TxIdx :
    IdHits(transactions[i]) # {} =>
      /\ enriched_transactions[i].API_Match = TRUE
      /\ CopiedFrom(enriched_transactions[i], api_products[Max(IdHits(transactions[i]))])

\* ProductID "P02" enriched from the catalog product of id 2
C3_Witness ==
  /\ pc = "enriched"
  /\ \E i \in TxIdx :
       /\ transactions[i].ProductID = <<"P", "0", "2">>
       /\ IdHits(transactions[i]) # {}
       /\ enriched_transactions[i].API_Category = "catB"
       /\ enriched_transactions[i].API_Brand = "brandB"
       /\ enriched_transactions[i].API_Rating = 42

\* C4 as stated: the id lookup wins when it finds a product; otherwise the
\* name lookup selects the first catalog product, in catalog order, whose
\* normalized title contains or is contained in the normalized ProductName.
C4_FirstProductWins ==
  Returned => \A i \in TxIdx :
    LET tx == transactions[i]
        e == enriched_transactions[i]
    IN IF IdHits(tx) # {} THEN CopiedFrom(e, api_products[Max(IdHits(tx))])
       ELSE TitleHits(tx) # {} => CopiedFrom(e, api_products[Min(TitleHits(tx))])

\* C4 as amended: the id lookup wins when it finds a product; otherwise the
\* name lookup selects the first normalized title, in catalog order, that
\* contains or is contained in the normalized ProductName, and uses the last
\* catalog product that has this normalized title.
C4_FirstTitleWins ==
  Returned => \A i \in TxIdx :
    LET tx == transactions[i]
        e == enriched_transactions[i]
    IN IF IdHits(tx) # {} THEN CopiedFrom(e, api_products[Max(IdHits(tx))])
       ELSE TitleHits(tx) # {} =>
              CopiedFrom(e, api_products[Max(SameTitle(Min(TitleHits(tx))))])

\* one transaction found by id although its name matches another product, and
\* one found by name under a normalized title that two products share
C4_Witness ==
  /\ pc = "enriched"
  /\ \E i \in TxIdx :
       /\ IdHits(transactions[i]) # {}
       /\ TitleHits(transactions[i]) # {}
       /\ Max(IdHits(transactions[i])) # Max(SameTitle(Min(TitleHits(transactions[i]))))
  /\ \E i \in TxIdx :
       /\ IdHits(transactions[i]) = {}
       /\ TitleHits(transactions[i]) # {}
       /\ Cardinality(SameTitle(Min(TitleHits(transactions[i])))) = 2

\* C8: enrich_sales_data returns one enriched transaction per input, in the
\* same order, with the same eight transaction fields, and leaves the input
\* records as they were: no API_* key is added to them.
C8_InputsKept ==
  /\ \A i \in TxIdx : DOMAIN transactions[i] = TxKeys
  /\ Returned =>
       /\ Len(enriched_transactions) = Len(transactions)
       /\ \A i \in TxIdx :
            /\ DOMAIN enriched_transactions[i] = TxKeys \cup ApiKeys
            /\ \A k \in TxKeys : enriched_transactions[i][k] = transactions[i][k]

\* two different transactions enriched
C8_Witness ==
  /\ pc = "enriched"
  /\ Len(enriched_transactions) = 2
  /\ transactions[1] # transactions[2]
  /\ enriched_transactions[1].ProductID # enriched_transactions[2].ProductID


(***************************************************************************)
(* The aggregates.  Sums of amounts are integers of thousandths (the       *)
(* records of these lists carry no NaN).  sorted(..., reverse=True) is a   *)
(* stable sort: equal keys keep their order.                               *)
(***************************************************************************)
AmountM(tx) == tx.Quantity * tx.UnitPrice.m

RECURSIVE SumAmounts(_)
SumAmounts(txs) == IF txs = <<>> THEN 0 ELSE AmountM(Head(txs)) + SumAmounts(Tail(txs))

\* n/d to the nearest integer, d # 0 (no quotient of the model is a tie)
RoundDiv(n, d) ==
  IF d > 0 THEN (2 * n + d) \div (2 * d) ELSE (2 * (-n) + (-d)) \div (2 * (-d))

\* round(x, 2) of an amount in thousandths
Round2(m) == 10 * RoundDiv(m, 10)

\* an insertion that puts x before the items of equal key
RECURSIVE InsertDescBeforeEqual(_, _)
InsertDescBeforeEqual(sorted, x) ==
  IF sorted = <<>> THEN <<x>>
  ELSE IF Head(sorted).k > x.k
       THEN <<Head(sorted)>> \o InsertDescBeforeEqual(Tail(sorted), x)
  ELSE <<x>> \o sorted

\* insertion of x behind the items whose key k is >= x.k
RECURSIVE InsertDesc(_, _)
InsertDesc(sorted, x) ==
  IF sorted = <<>> THEN <<x>>
  ELSE IF Head(sorted).k >= x.k THEN <<Head(sorted)>> \o InsertDesc(Tail(sorted), x)
  ELSE <<x>> \o sorted

RECURSIVE SortDescFrom(_, _)
SortDescFrom(sorted, items) ==
  IF items = <<>> THEN sorted
  ELSE SortDescFrom(InsertDesc(sorted, Head(items)), Tail(items))

\* sorted(items, key=k, reverse=True)
SortDesc(items) == SortDescFrom(<<>>, items)

\* the defaultdict of a grouping loop: sales and count per Region, in the
\* order in which the regions are met
RECURSIVE RegionLoop(_, _)
RegionLoop(d, txs) ==
  IF txs = <<>> THEN d
  ELSE LET tx == Head(txs)
           old == IF DictHas(d, tx.Region) THEN DictGet(d, tx.Region).v
                  ELSE [sales |-> 0, count |-> 0]
       IN RegionLoop(DictSet(d, tx.Region,
                             [sales |-> old.sales + AmountM(tx), count |-> old.count + 1]),
                     Tail(txs))

(***************************************************************************)
(* utils/data_processor.py.                                                *)
(***************************************************************************)
\* calculate_total_revenue: round(sum(...), 2)
dp_calculate_total_revenue(txs) == Round2(SumAmounts(txs))

\* region_wise_sales: the regions by total sales, or ZeroDivisionError from
\* data["total_sales"] / total_revenue.  A percentage is kept in hundredths
\* of a percent: round(x * 100, 2).
dp_region_wise_sales(txs) ==
  LET total_revenue == dp_calculate_total_revenue(txs)
      region_map == RegionLoop(<<>>, txs)
      result == [i \in 1..Len(region_map) |->
                   [k |-> Round2(region_map[i].val.sales),
                    region |-> region_map[i].key,
                    total_sales |-> Round2(region_map[i].val.sales),
                    transaction_count |-> region_map[i].val.count,
                    percentage |-> IF total_revenue = 0 THEN 0
                                   ELSE RoundDiv(region_map[i].val.sales * 10000,
                                                 total_revenue)]]
  IN IF region_map # <<>> /\ total_revenue = 0
     THEN [exc |-> "ZeroDivisionError", v |-> <<>>]
     ELSE [exc |-> "none", v |-> SortDesc(result)]

\* quantity and revenue per ProductName, in the order in which the names are
\* met: the defaultdict of top_selling_products
RECURSIVE ProductMapLoop(_, _)
ProductMapLoop(d, txs) ==
  IF txs = <<>> THEN d
  ELSE LET tx == Head(txs)
           old == IF DictHas(d, tx.ProductName) THEN DictGet(d, tx.ProductName).v
                  ELSE [quantity |-> 0, revenue |-> 0]
       IN ProductMapLoop(DictSet(d, tx.ProductName,
                                 [quantity |-> old.quantity + tx.Quantity,
                                  revenue |-> old.revenue + AmountM(tx)]),
                         Tail(txs))

\* s[:limit], limit >= 0
FirstN(s, limit) == SubSeq(s, 1, IF Len(s) < limit THEN Len(s) ELSE limit)

\* top_selling_products(transactions, top_n): (name, quantity, round(revenue, 2))
top_selling_products(txs, limit) ==
  LET product_map == ProductMapLoop(<<>>, txs)
      items == [i \in 1..Len(product_map) |->
                  [k |-> product_map[i].val.quantity, name |-> product_map[i].key,
                   data |-> product_map[i].val]]
      sorted_products == FirstN(SortDesc(items), limit)
  IN [i \in 1..Len(sorted_products) |->
        [name |-> sorted_products[i].name,
         qty |-> sorted_products[i].data.quantity,
         revenue |-> Round2(sorted_products[i].data.revenue)]]

(***************************************************************************)
(* utils/report_generator.py.                                              *)
(***************************************************************************)
\* calculate_total_revenue: the sum, not rounded
rg_calculate_total_revenue(txs) == SumAmounts(txs)

\* region_wise_sales: (region, sales, percent, count) by sales; the percent
\* is (sales / total_sales * 100) if total_sales else 0
rg_region_wise_sales(txs) ==
  LET data == RegionLoop(<<>>, txs)
      total_sales == SumAmounts(txs)
      result == [i \in 1..Len(data) |->
                   [k |-> data[i].val.sales,
                    region |-> data[i].key,
                    sales |-> data[i].val.sales,
                    percent |-> IF total_sales # 0
                                THEN Ratio(data[i].val.sales * 100, total_sales)
                                ELSE Ratio(0, 1),
                    count |-> data[i].val.count]]
  IN SortDesc(result)

\* quantity and revenue per ProductName, in the order in which the names are met
RECURSIVE ProductLoop(_, _)
ProductLoop(d, txs) ==
  IF txs = <<>> THEN d
  ELSE LET tx == Head(txs)
           old == IF DictHas(d, tx.ProductName) THEN DictGet(d, tx.ProductName).v
                  ELSE [qty |-> 0, revenue |-> 0]
       IN ProductLoop(DictSet(d, tx.ProductName,
                              [qty |-> old.qty + tx.Quantity,
                               revenue |-> old.revenue + AmountM(tx)]),
                      Tail(txs))

\* top_products(transactions, top_n): (rank, name, qty, revenue)
top_products(txs, limit) ==
  LET products == ProductLoop(<<>>, txs)
      items == [i \in 1..Len(products) |->
                  [k |-> products[i].val.qty, name |-> products[i].key,
                   qty |-> products[i].val.qty, revenue |-> products[i].val.revenue]]
      first == FirstN(SortDesc(items), limit)
  IN [i \in 1..Len(first) |->
        [rank |-> i, name |-> first[i].name, qty |-> first[i].qty,
         revenue |-> first[i].revenue]]

\* spent and count per CustomerID
RECURSIVE CustomerLoop(_, _)
CustomerLoop(d, txs) ==
  IF txs = <<>> THEN d
  ELSE LET tx == Head(txs)
           old == IF DictHas(d, tx.CustomerID) THEN DictGet(d, tx.CustomerID).v
                  ELSE [spent |-> 0, count |-> 0]
       IN CustomerLoop(DictSet(d, tx.CustomerID,
                               [spent |-> old.spent + AmountM(tx), count |-> old.count + 1]),
                       Tail(txs))

\* top_customers(transactions, top_n): (rank, customer, spent, count)
top_customers(txs, limit) ==
  LET customers == CustomerLoop(<<>>, txs)
      items == [i \in 1..Len(customers) |->
                  [k |-> customers[i].val.spent, customer |-> customers[i].key,
                   spent |-> customers[i].val.spent, count |-> customers[i].val.count]]
      first == FirstN(SortDesc(items), limit)
  IN [i \in 1..Len(first) |->
        [rank |-> i, customer |-> first[i].customer, spent |-> first[i].spent,
         count |-> first[i].count]]

\* the order of str: by the first character that differs, a prefix first
CharOrder == <<" ", ",", "-", ".">> \o Digits \o UpperCase \o LowerCase \o <<"|">>

CharCode(c) == CHOOSE i \in 1..Len(CharOrder) : CharOrder[i] = c

RECURSIVE StrLess(_, _)
StrLess(a, b) ==
  IF b = <<>> THEN FALSE
  ELSE IF a = <<>> THEN TRUE
  ELSE IF Head(a) = Head(b) THEN StrLess(Tail(a), Tail(b))
  ELSE CharCode(Head(a)) < CharCode(Head(b))

RECURSIVE InsertStr(_, _)
InsertStr(sorted, x) ==
  IF sorted = <<>> THEN <<x>>
  ELSE IF StrLess(x.k, Head(sorted).k) THEN <<x>> \o sorted
  ELSE <<Head(sorted)>> \o InsertStr(Tail(sorted), x)

RECURSIVE SortStrFrom(_, _)
SortStrFrom(sorted, items) ==
  IF items = <<>> THEN sorted
  ELSE SortStrFrom(InsertStr(sorted, Head(items)), Tail(items))

\* sorted(items), the key k a str
SortStr(items) == SortStrFrom(<<>>, items)

\* revenue, count and customers per Date
RECURSIVE DailyLoop(_, _)
DailyLoop(d, txs) ==
  IF txs = <<>> THEN d
  ELSE LET tx == Head(txs)
           old == IF DictHas(d, tx.Date) THEN DictGet(d, tx.Date).v
                  ELSE [revenue |-> 0, count |-> 0, customers |-> {}]
       IN DailyLoop(DictSet(d, tx.Date,
                            [revenue |-> old.revenue + AmountM(tx),
                             count |-> old.count + 1,
                             customers |-> old.customers \cup {tx.CustomerID}]),
                    Tail(txs))

\* daily_sales_trend(transactions): dict(sorted(daily.items()))
rg_daily_sales_trend(txs) ==
  LET daily == DailyLoop(<<>>, txs)
  IN SortStr([i \in 1..Len(daily) |->
                [k |-> daily[i].key, date |-> daily[i].key,
                 revenue |-> daily[i].val.revenue, count |-> daily[i].val.count,
                 customers |-> Cardinality(daily[i].val.customers)]])

\* generate_sales_report(transactions, enriched_transactions): what is
\* written to the file, and the exception that ends the call, if any:
\* ZeroDivisionError from total_revenue / len(transactions) before the file is
\* opened, TypeError from the format {p:<20} of a ProductName that is None
\* once the sections before the top products are written
generate_sales_report(txs, enriched) ==
  LET total_revenue == rg_calculate_total_revenue(txs)
      dates == SortStr([i \in 1..Len(txs) |-> [k |-> txs[i].Date]])
      products == top_products(txs, 5)
      head == [records |-> Len(txs),
               total_revenue |-> total_revenue,
               avg_order |-> Ratio(total_revenue, Len(txs)),
               date_range |-> <<dates[1].k, dates[Len(dates)].k>>,
               regions |-> rg_region_wise_sales(txs)]
  IN IF Len(txs) = 0
     THEN [exc |-> "ZeroDivisionError", report |-> [written |-> "nothing"]]
     ELSE IF \E i \in 1..Len(products) : products[i].name = NoneStr
     THEN [exc |-> "TypeError", report |-> [written |-> "part", head |-> head]]
     ELSE [exc |-> "none",
           report |-> [written |-> "all",
                       head |-> head,
                       products |-> products,
                       customers |-> top_customers(txs, 5),
                       daily |-> rg_daily_sales_trend(txs),
                       enrichment |-> api_enrichment_summary(enriched)]]


(***************************************************************************)
(* The aggregates and the report on lists of records.                      *)
(***************************************************************************)
MaxReportTx == 2

RTx(rgn, qty, price, name, cid, date) ==
  [TransactionID |-> <<"T", "1">>, Date |-> date, ProductID |-> <<"P", "1">>,
   ProductName |-> name, Quantity |-> qty, UnitPrice |-> FNum(price),
   CustomerID |-> cid, Region |-> rgn]

\* amounts 1.0, 5.0, 0.004, 0, -1.0 and 2.5; a ProductName that is None; two
\* names with records of equal quantity
ReportTx ==
  { RTx(<<"N">>, 1, 1000, <<"M", " ", "W">>, <<"C", "1">>, <<"d", "1">>),
    RTx(<<"S">>, 2, 2500, <<"K", "e", "y">>, <<"C", "2">>, <<"d", "2">>),
    RTx(<<"N">>, 1, 4, <<"M", " ", "W">>, <<"C", "1">>, <<"d", "2">>),
    RTx(<<"S">>, 0, 1000, <<"K", "e", "y">>, <<"C", "2">>, <<"d", "1">>),
    RTx(<<"N">>, -1, 1000, <<"M", " ", "W">>, <<"C", "1">>, <<"d", "1">>),
    RTx(<<"N">>, 1, 1000, NoneStr, <<"C", "2">>, <<"d", "0">>),
    RTx(<<"S">>, 1, 2500, <<"K", "e", "y">>, <<"C", "2">>, <<"d", "2">>) }

\* the records as enrich_sales_data returns them for an empty catalog
Placeholder(tx) == tx @@ ApiFields(GenericProduct) @@ [API_Match |-> ApiMatch(FALSE)]

\* the n of the top-n lists: none, fewer than the products, all, the default
TopChoices == {0, 1, 2, 5}

InitReport ==
  /\ pc = "ready"
  /\ raised = "none"
  /\ raw_lines = <<>>
  /\ transactions \in SeqsUpTo(ReportTx, MaxReportTx)
  /\ NoFilterCall
  /\ api_products = <<>>
  /\ product_mapping = NoMapping
  /\ enriched_transactions = [i \in 1..Len(transactions) |-> Placeholder(transactions[i])]
  /\ enrichment = NoEnrichment
  /\ region_sales = <<>>
  /\ report = NoReport
  /\ top_n \in TopChoices
  /\ top = <<>>
  /\ NoMainRun

\* region_wise_sales of utils/data_processor.py
RegionWiseSalesDP ==
  /\ pc = "ready"
  /\ LET r == dp_region_wise_sales(transactions)
     IN raised' = r.exc /\ region_sales' = r.v
  /\ pc' = "region_dp"
  /\ UNCHANGED <<mainVars, raw_lines, transactions, vfVars, apiVars, report, top_n, top>>

\* region_wise_sales of utils/report_generator.py
RegionWiseSalesRG ==
  /\ pc = "ready"
  /\ region_sales' = rg_region_wise_sales(transactions)
  /\ pc' = "region_rg"
  /\ UNCHANGED <<mainVars, raised, raw_lines, transactions, vfVars, apiVars, report, top_n, top>>

GenerateSalesReport ==
  /\ pc = "ready"
  /\ LET r == generate_sales_report(transactions, enriched_transactions)
     IN raised' = r.exc /\ report' = r.report
  /\ pc' = "report"
  /\ UNCHANGED <<mainVars, raw_lines, transactions, vfVars, apiVars, region_sales, top_n, top>>

\* top_selling_products of utils/data_processor.py
TopSellingProducts ==
  /\ pc = "ready"
  /\ top' = top_selling_products(transactions, top_n)
  /\ pc' = "top_dp"
  /\ UNCHANGED <<mainVars, raised, raw_lines, transactions, vfVars, apiVars,
                 region_sales, report, top_n>>

\* top_products of utils/report_generator.py
TopProducts ==
  /\ pc = "ready"
  /\ top' = top_products(transactions, top_n)
  /\ pc' = "top_rg"
  /\ UNCHANGED <<mainVars, raised, raw_lines, transactions, vfVars, apiVars,
                 region_sales, report, top_n>>

NextReport ==
  \/ RegionWiseSalesDP
  \/ RegionWiseSalesRG
  \/ GenerateSalesReport
  \/ TopSellingProducts
  \/ TopProducts

SpecReport == InitReport /\ [][NextReport]_vars

(***************************************************************************)
(* What the specification says of the report and of the region summary.    *)
(***************************************************************************)
\* C9: for an empty transaction list the total revenue is 0 and
\* generate_sales_report completes without a division by zero.
C9_EmptyReport ==
  (pc = "report" /\ transactions = <<>>) =>
    /\ rg_calculate_total_revenue(transactions) = 0
    /\ raised = "none"
    /\ report.written = "all"

GrandTotal == SumAmounts(transactions)

\* the sales of a region: the amounts of its records
SalesOf(rgn) == SumAmounts(SelectSeq(transactions, LAMBDA tx : tx.Region = rgn))

\* C10: region_wise_sales, the aggregator's and the report's, returns without
\* raising for every record set; every percentage is 0 when the total
\* revenue is 0, and otherwise the region's sales over the total, times 100
\* (the aggregator's total being rounded to 2 places, like its percentages).
C10_RegionPercentages ==
  /\ pc \in {"region_dp", "region_rg"} =>
       /\ raised = "none"
       /\ Len(region_sales) = Cardinality({transactions[i].Region : i \in TxIdx})
  /\ pc = "region_rg" => \A j \in 1..Len(region_sales) :
       IF GrandTotal = 0 THEN region_sales[j].percent.num = 0
       ELSE region_sales[j].percent =
              Ratio(SalesOf(region_sales[j].region) * 100, GrandTotal)
  /\ pc = "region_dp" => \A j \in 1..Len(region_sales) :
       IF Round2(GrandTotal) = 0 THEN region_sales[j].percentage = 0
       ELSE region_sales[j].percentage =
              RoundDiv(SalesOf(region_sales[j].region) * 10000, Round2(GrandTotal))

(***************************************************************************)
(* What the specification says of the top-n products.                      *)
(***************************************************************************)
Names == {transactions[i].ProductName : i \in TxIdx}

NamedTx(name) == SelectSeq(transactions, LAMBDA tx : tx.ProductName = name)

RECURSIVE SumQuantity(_)
SumQuantity(txs) ==
  IF txs = <<>> THEN 0 ELSE Head(txs).Quantity + SumQuantity(Tail(txs))

QuantityOf(name) == SumQuantity(NamedTx(name))

FirstMet(name) == Min({i \in TxIdx : transactions[i].ProductName = name})

\* name a goes before name b: more quantity, or as much and met earlier
GoesBefore(a, b) ==
  \/ QuantityOf(a) > QuantityOf(b)
  \/ QuantityOf(a) = QuantityOf(b) /\ FirstMet(a) < FirstMet(b)

TopNames == {top[j].name : j \in 1..Len(top)}

\* C11: top_selling_products(transactions, n), and the report's
\* top_products, return at most n products, one per ProductName, each with
\* the summed quantity and the summed revenue of its records, in
\* non-increasing order of quantity; products of equal quantity are in the
\* order in which their names were first met in the list, and the products
\* left out go after every product returned in that same order.
C11_TopStable ==
  pc \in {"top_dp", "top_rg"} =>
    /\ Len(top) <= top_n
    /\ Len(top) = Min({top_n, Cardinality(Names)})
    /\ TopNames \subseteq Names
    /\ \A j \in 1..Len(top) :
         /\ top[j].qty = QuantityOf(top[j].name)
         /\ top[j].revenue = IF pc = "top_dp"
                             THEN Round2(SumAmounts(NamedTx(top[j].name)))
                             ELSE SumAmounts(NamedTx(top[j].name))
         /\ pc = "top_rg" => top[j].rank = j
    /\ \A i, j \in 1..Len(top) :
         i < j => /\ top[i].qty >= top[j].qty
                  /\ GoesBefore(top[i].name, top[j].name)
    /\ \A j \in 1..Len(top) : \A b \in Names \ TopNames : GoesBefore(top[j].name, b)

\* two named products of equal quantity are returned
C11_Witness ==
  /\ pc = "top_dp"
  /\ Len(top) = 2
  /\ top[1].qty = top[2].qty
  /\ top[1].name # NoneStr
  /\ top[2].name # NoneStr

(***************************************************************************)
(* main.py: the imports of the module and the ten stages of main.          *)
(***************************************************************************)
MaxFileLines == 2

\* the names utils/data_processor.py defines
DataProcessorDefs ==
  {"load_cleaned_transactions", "calculate_total_revenue", "region_wise_sales",
   "top_selling_products", "customer_analysis", "daily_sales_trend",
   "find_peak_sales_day", "low_performing_products", "main"}

\* from utils.data_processor import (validate_and_filter)
ImportResolves == "validate_and_filter" \in DataProcessorDefs

\* read_sales_data(filename): the lines after the first, stripped, the empty
\* ones left out; for a file that is not there, a message and the empty list
read_sales_data(f) ==
  IF ~f.exists
  THEN [lines |-> <<>>, printed |-> <<"Error: File not found">>]
  ELSE LET rest == IF f.lines = <<>> THEN <<>> ELSE Tail(f.lines)
           stripped == [i \in 1..Len(rest) |-> Strip(rest[i])]
       IN [lines |-> SelectSeq(stripped, LAMBDA l : l # <<>>), printed |-> <<>>]

\* p.get(key, default) of a product of the response
Get(p, key, default) == IF key \in DOMAIN p THEN p[key] ELSE default

\* fetch_all_products(): the products of the response, or the empty list
\* when the request raises a requests.RequestException
fetch_all_products(f) ==
  IF f.outcome = "ok"
  THEN [products |-> [i \in 1..Len(f.products) |->
                        [id |-> Get(f.products[i], "id", 0),
                         title |-> Get(f.products[i], "title", <<"U">>),
                         category |-> Get(f.products[i], "category", "miscellaneous"),
                         brand |-> Get(f.products[i], "brand", "Generic"),
                         rating |-> Get(f.products[i], "rating", 40)]],
        printed |-> <<"SUCCESS: Fetched products from API">>]
  ELSE [products |-> <<>>, printed |-> <<"ERROR: Failed to fetch API products">>]

\* save_enriched_data(enriched_transactions): the rows written, and the message
save_enriched_data(enriched) ==
  IF enriched = <<>>
  THEN [rows |-> <<>>, printed |-> <<"WARNING: No data to save">>]
  ELSE [rows |-> enriched, printed |-> <<"SUCCESS: Enriched data saved">>]

\* the except clauses of main
Handler(exc) ==
  IF exc = "FileNotFoundError" THEN <<"ERROR: File not found">>
  ELSE <<"ERROR: Unexpected issue occurred">>

\* min(amounts) and max(amounts) answer every list but the empty one
AmountRangeAlways(txs) == "none"

\* min(amounts), max(amounts): ValueError on the empty list
AmountRange(txs) == IF txs = <<>> THEN "ValueError" ELSE "none"

\* float(s) if s else None
OptionalFloat(s) == IF Truthy(s) THEN ParseFloat(s) ELSE Ok(FNone)

\* the prompts of stage 3: the three filters, or the ValueError of float()
FilterAnswers(a) ==
  IF Lower(Strip(a.apply_filter)) = <<"y">>
  THEN LET lo == OptionalFloat(Strip(a.min_amt))
           hi == OptionalFloat(Strip(a.max_amt))
       IN IF ~lo.ok \/ ~hi.ok
          THEN [exc |-> "ValueError", region |-> Strip(a.region),
                min_amt |-> FNone, max_amt |-> FNone]
          ELSE [exc |-> "none", region |-> Strip(a.region),
                min_amt |-> lo.v, max_amt |-> hi.v]
  ELSE [exc |-> "none", region |-> NoneStr, min_amt |-> FNone, max_amt |-> FNone]

\* the lines of data/sales_data.txt: two valid records, a valid record whose
\* ProductName field is empty, one that breaks the TransactionID rule, a
\* line of 7 fields and a blank line
MainFieldLists ==
  { GoodFields,
    << <<"T", "2">>, <<"d", "2">>, <<"P", "2">>, <<"K", "e", "y">>,
       <<"1">>, <<"2", ".", "5">>, <<"C", "2">>, <<"S">> >>,
    [GoodFields EXCEPT ![1] = <<"T", "3">>, ![4] = <<>>],
    WithField(1, <<"X", "4">>),
    SubSeq(GoodFields, 1, 7) }

MainLineSet == {Join(f, Bar) : f \in MainFieldLists} \cup {<<" ">>}

Header == <<"I", "D", "|", "D", "a", "t", "e">>

\* the file is not there, is empty, or has a header and some lines
FileChoices ==
  {NoFile, [exists |-> TRUE, lines |-> <<>>]}
    \cup {[exists |-> TRUE, lines |-> <<Header>> \o body] :
            body \in SeqsUpTo(MainLineSet, MaxFileLines)}

\* no filter, or a region, a minimum and a maximum; "x" is no number
AnswerChoices ==
  {NoAnswers}
    \cup {[apply_filter |-> <<" ", "Y">>, region |-> r, min_amt |-> lo, max_amt |-> hi] :
            r \in {<<>>, <<"N">>},
            lo \in {<<>>, <<"2", ".", "5">>, <<"x">>},
            hi \in {<<>>, <<"9">>}}

\* the products of a response: one with a field the program does not read,
\* one without a brand
ResponseChoices ==
  { <<>>,
    << [id |-> 1, title |-> <<"M", " ", "w">>, category |-> "catA",
        brand |-> "brandA", rating |-> 41, price |-> 9] >>,
    << [id |-> 7, title |-> <<"K", "e">>, category |-> "catC", rating |-> 43] >> }

\* the request succeeds, or raises ConnectionError or HTTPError, both
\* subclasses of requests.RequestException
FetchChoices ==
  {[outcome |-> "ok", products |-> ps] : ps \in ResponseChoices}
    \cup {[outcome |-> o, products |-> <<>>] : o \in {"ConnectionError", "HTTPError"}}

InitMain ==
  /\ pc = "start"
  /\ raised = "none"
  /\ raw_lines = <<>>
  /\ transactions = <<>>
  /\ NoFilterCall
  /\ NoCatalogCall
  /\ NoReportCall
  /\ entry \in {"script", "main"}
  /\ file \in FileChoices
  /\ answers \in AnswerChoices
  /\ fetch \in FetchChoices
  /\ stages = <<>>
  /\ printed = <<>>
  /\ saved = <<>>

\* the variables a stage leaves alone unless it names them
inputVars == <<entry, file, answers, fetch>>

\* python main.py: the imports at the top of the module, before main() is
\* called; an ImportError ends the process with a traceback
ImportModules ==
  /\ pc = "start"
  /\ entry = "script"
  /\ pc' = IF ImportResolves THEN "s1" ELSE "crashed"
  /\ raised' = IF ImportResolves THEN "none" ELSE "ImportError"
  /\ UNCHANGED <<inputVars, stages, printed, saved, raw_lines, transactions, vfVars,
                 apiVars, repVars>>

\* main() called with validate_and_filter bound to the function of that name,
\* the one of utils/file_handler.py
CallMain ==
  /\ pc = "start"
  /\ entry = "main"
  /\ pc' = "s1"
  /\ UNCHANGED <<inputVars, stages, printed, saved, raised, raw_lines, transactions,
                 vfVars, apiVars, repVars>>

\* [1/10] Reading sales data
Stage1Read ==
  /\ pc = "s1"
  /\ stages' = Append(stages, 1)
  /\ LET r == read_sales_data(file)
     IN raw_lines' = r.lines /\ printed' = printed \o r.printed
  /\ pc' = "s2"
  /\ UNCHANGED <<inputVars, saved, raised, transactions, vfVars, apiVars, repVars>>

\* [2/10] Parsing and cleaning data
Stage2Parse ==
  /\ pc = "s2"
  /\ stages' = Append(stages, 2)
  /\ LET r == parse_transactions(raw_lines)
     IN /\ raised' = r.exc
        /\ transactions' = IF r.exc = "none" THEN r.txs ELSE transactions
        /\ printed' = IF r.exc = "none" THEN printed ELSE printed \o Handler(r.exc)
        /\ pc' = IF r.exc = "none" THEN "s3" ELSE "done"
  /\ UNCHANGED <<inputVars, saved, raw_lines, vfVars, apiVars, repVars>>

\* [3/10] Filter Options Available: the amount range, then the prompts
Stage3Filters ==
  /\ pc = "s3"
  /\ stages' = Append(stages, 3)
  /\ LET range == AmountRange(transactions)
         a == FilterAnswers(answers)
         exc == IF range # "none" THEN range ELSE a.exc
     IN /\ raised' = exc
        /\ region' = IF exc = "none" THEN a.region ELSE region
        /\ min_amount' = IF exc = "none" THEN a.min_amt ELSE min_amount
        /\ max_amount' = IF exc = "none" THEN a.max_amt ELSE max_amount
        /\ printed' = IF exc = "none" THEN printed ELSE printed \o Handler(exc)
        /\ pc' = IF exc = "none" THEN "s4" ELSE "done"
  /\ UNCHANGED <<inputVars, saved, raw_lines, transactions, returned, previous,
                 apiVars, repVars>>

\* [4/10] Validating transactions: region=region_filter or None
Stage4Validate ==
  /\ pc = "s4"
  /\ stages' = Append(stages, 4)
  /\ returned' = validate_and_filter(transactions,
                                     IF Truthy(region) THEN region ELSE NoneStr,
                                     min_amount, max_amount)
  /\ pc' = "s5"
  /\ UNCHANGED <<inputVars, printed, saved, raised, raw_lines, transactions, region,
                 min_amount, max_amount, previous, apiVars, repVars>>

\* [5/10] Analyzing sales data: two messages
Stage5Analysis ==
  /\ pc = "s5"
  /\ stages' = Append(stages, 5)
  /\ pc' = "s6"
  /\ UNCHANGED <<inputVars, printed, saved, raised, raw_lines, transactions, vfVars,
                 apiVars, repVars>>

\* [6/10] Fetching product data from API
Stage6Fetch ==
  /\ pc = "s6"
  /\ stages' = Append(stages, 6)
  /\ LET r == fetch_all_products(fetch)
     IN /\ api_products' = r.products
        /\ product_mapping' = create_product_mapping(r.products)
        /\ printed' = printed \o r.printed
  /\ pc' = "s7"
  /\ UNCHANGED <<inputVars, saved, raised, raw_lines, transactions, vfVars,
                 enriched_transactions, enrichment, repVars>>

\* [7/10] Enriching sales data, and matched / len(enriched_transactions)
Stage7Enrich ==
  /\ pc = "s7"
  /\ stages' = Append(stages, 7)
  /\ LET r == enrich_sales_data(returned.filtered, product_mapping)
         exc == IF r.exc # "none" THEN r.exc
                ELSE IF r.enriched = <<>> THEN "ZeroDivisionError"
                ELSE "none"
     IN /\ raised' = exc
        /\ enriched_transactions' = IF r.exc = "none" THEN r.enriched
                                    ELSE enriched_transactions
        /\ printed' = IF exc = "none" THEN printed ELSE printed \o Handler(exc)
        /\ pc' = IF exc = "none" THEN "s8" ELSE "done"
  /\ UNCHANGED <<inputVars, saved, raw_lines, transactions, vfVars, api_products,
                 product_mapping, enrichment, repVars>>

\* [8/10] Saving enriched data
Stage8Save ==
  /\ pc = "s8"
  /\ stages' = Append(stages, 8)
  /\ LET r == save_enriched_data(enriched_transactions)
     IN saved' = r.rows /\ printed' = printed \o r.printed
  /\ pc' = "s9"
  /\ UNCHANGED <<inputVars, raised, raw_lines, transactions, vfVars, apiVars, repVars>>

\* [9/10] Generating report
Stage9Report ==
  /\ pc = "s9"
  /\ stages' = Append(stages, 9)
  /\ LET r == generate_sales_report(returned.filtered, enriched_transactions)
     IN /\ raised' = r.exc
        /\ report' = r.report
        /\ printed' = IF r.exc = "none" THEN printed ELSE printed \o Handler(r.exc)
        /\ pc' = IF r.exc = "none" THEN "s10" ELSE "done"
  /\ UNCHANGED <<inputVars, saved, raw_lines, transactions, vfVars, apiVars,
                 region_sales, top_n, top>>

\* [10/10] Process Complete!
Stage10Complete ==
  /\ pc = "s10"
  /\ stages' = Append(stages, 10)
  /\ printed' = Append(printed, "Process Complete")
  /\ pc' = "done"
  /\ UNCHANGED <<inputVars, saved, raised, raw_lines, transactions, vfVars, apiVars,
                 repVars>>

NextMain ==
  \/ ImportModules
  \/ CallMain
  \/ Stage1Read
  \/ Stage2Parse
  \/ Stage3Filters
  \/ Stage4Validate
  \/ Stage5Analysis
  \/ Stage6Fetch
  \/ Stage7Enrich
  \/ Stage8Save
  \/ Stage9Report
  \/ Stage10Complete

SpecMain == InitMain /\ [][NextMain]_vars

(***************************************************************************)
(* What the specification says of a run of main.                           *)
(***************************************************************************)
Ran(k) == \E i \in 1..Len(stages) : stages[i] = k

Printed(msg) == \E i \in 1..Len(printed) : printed[i] = msg

ValidCount == Len(returned.filtered)

C13_FetchFailureDegrades ==
  (fetch.outcome # "ok" /\ Ran(6)) =>
    /\ api_products = <<>>
    /\ Printed("ERROR: Failed to fetch API products")
    /\ (pc = "done" /\ ValidCount >= 1) =>
         /\ raised = "none"
         /\ stages = <<1, 2, 3, 4, 5, 6, 7, 8, 9, 10>>
         /\ Len(saved) = ValidCount
         /\ report.written = "all"
         /\ Printed("Process Complete")

\* C14: every run of main ends cleanly: the stages begin in the order 1 to
\* 10, each after all those before it, no exception leaves the program, and
\* once the run is over either stage 10 has printed "Process Complete" or the
\* last thing printed is the error message of the stage that failed, the last
\* stage begun.
C14_CleanRun ==
  /\ \A i \in 1..Len(stages) : stages[i] = i
  /\ pc # "crashed"
  /\ raised # "none" => pc = "done"
  /\ pc = "done" =>
       \/ /\ raised = "none"
          /\ Len(stages) = 10
          /\ printed[Len(printed)] = "Process Complete"
       \/ /\ raised # "none"
          /\ Len(stages) < 10
          /\ printed[Len(printed)] \in {"ERROR: File not found",
                                       "ERROR: Unexpected issue occurred"}

(***************************************************************************)
(* What the specification says of the summary of validate_and_filter.      *)
(***************************************************************************)
\* C15: the summary validate_and_filter returns accounts for every input
\* record once: total_input, the length of the input list, is invalid +
\* filtered_by_region + filtered_by_amount + final_count; final_count is the
\* length of the returned list and invalid is the returned invalid_count; no
\* count is negative.
C15_SummaryAccounts ==
  pc \in {"validated", "revalidated"} =>
    LET sm == returned.summary
    IN /\ sm.total_input = Len(transactions)
       /\ sm.total_input = sm.invalid + sm.filtered_by_region
                             + sm.filtered_by_amount + sm.final_count
       /\ sm.final_count = Len(returned.filtered)
       /\ sm.invalid = returned.invalid_count
       /\ sm.invalid >= 0 /\ sm.filtered_by_region >= 0 /\ sm.filtered_by_amount >= 0

\* a call that counts an invalid record, one removed by the region filter
\* and one removed by an amount filter
C15_Witness ==
  /\ pc = "validated"
  /\ returned.summary.invalid >= 1
  /\ returned.summary.filtered_by_region >= 1
  /\ returned.summary.filtered_by_amount >= 1

(***************************************************************************)
(* What the specification says of the enrichment of parsed, valid records. *)
(***************************************************************************)
\* the line of the sales file a record of the enrichment lists comes from:
\* an empty ProductName field gives None, the field "," gives ""
LineOf(tx) ==
  Join(<< tx.TransactionID, tx.Date, tx.ProductID,
          IF tx.ProductName = NoneStr THEN <<>>
          ELSE IF tx.ProductName = <<>> THEN <<",">>
          ELSE tx.ProductName,
          <<"1">>, <<"2", ".", "5">>, tx.CustomerID, tx.Region >>, Bar)

\* the record is what parse_transactions makes of its line, and
\* validate_and_filter admits it
FromPipeline(tx) ==
  /\ parse_transactions(<<LineOf(tx)>>) = [txs |-> <<tx>>, exc |-> "none"]
  /\ validate_and_filter(<<tx>>, NoneStr, FNone, FNone).filtered = <<tx>>

\* C16: on records that parse_transactions produces and validate_and_filter
\* admits, and for every catalog (the empty one included), enrich_sales_data
\* returns without raising, one enriched record per transaction: a ProductID
\* without a digit is no id match and goes on to the name lookup, and a
\* transaction whose ProductName is None (the field was empty) is enriched
\* too, from the product of its id or else with the placeholder.
C16_EnrichNeverRaises ==
  (/\ pc \in {"enriched", "raised", "summarised"}
   /\ \A i \in TxIdx : FromPipeline(transactions[i])) =>
    /\ raised = "none"
    /\ pc # "raised"
    /\ Len(enriched_transactions) = Len(transactions)
    /\ \A i \in TxIdx :
         LET tx == transactions[i]
             e == enriched_transactions[i]
         IN /\ (~HasDigits(tx) /\ TitleHits(tx) # {}) =>
                 CopiedFrom(e, api_products[Max(SameTitle(Min(TitleHits(tx))))])
            /\ (tx.ProductName = NoneStr \/ ~Found(tx)) =>
                 IF IdHits(tx) # {} THEN CopiedFrom(e, api_products[Max(IdHits(tx))])
                 ELSE CopiedFrom(e, GenericProduct)

=============================================================================
